---- MODULE Spec2Model ----
(***************************************************************************)
(* alignmentPolish, main.py: the command line entry point, the shard       *)
(* partitioner do_parallel, and the region orchestrator View.parse_region  *)
(* with its JSON artifact writer View.write_json.                          *)
(*                                                                         *)
(* One dispatching process (the script body and do_parallel) and one       *)
(* region run per shard (a multiprocessing.Process running parse_region),  *)
(* or, in test mode, one region run called synchronously by the script.    *)
(* The runs share only the file system (directories and artifact files).   *)
(***************************************************************************)
EXTENDS Integers, Sequences, FiniteSets, TLC

\* ------------------------------------------------------------------ bounds
\* Largest shard count (--max_threads) explored by Spec and SpecTest.
MaxThreads == 2
\* Largest chromosome length explored by Spec and SpecTest (lengths 0..MaxLen).
MaxLen == 1
\* Largest number of windows the window detector returns for one region.
MaxWindows == 2
\* SpecShard: shard counts 1..MaxShards, lengths k*LenStride + r.
MaxShards == 3
LenStride == 700
MaxLenSteps == 5
MaxLenRest == 3

\* ------------------------------------------------------- program constants
Overlap == 1000
TestStart == 100000
TestEnd == 200000

chromosome_name == "3"
output_dir == "output/"
json_dir == "output/json_output/"

VARIABLES
    max_threads,          \* FLAGS.max_threads
    test,                 \* FLAGS.test
    json_out,             \* FLAGS.json
    chr_length,           \* what the reference source reports for the chromosome
    mainpc,               \* position of the dispatching process
    mainerr,              \* the exception that ended it, "" when none
    whole_length,         \* do_parallel's local
    each_segment_length,  \* do_parallel's local
    i,                    \* do_parallel's loop index
    handles,              \* number of BamHandler/FastaHandler objects opened so far
    created,              \* directories created by this program run
    dirs,                 \* directories that exist
    files,                \* artifact files: name -> [state, doc, writers]
    run                   \* region runs: one per shard (test mode: slot 0)

vars == <<max_threads, test, json_out, chr_length, mainpc, mainerr, whole_length,
          each_segment_length, i, handles, created, dirs, files, run>>

inputs == <<max_threads, test, json_out, chr_length>>
locals == <<whole_length, each_segment_length, i>>
fs == <<created, dirs, files>>

\* one slot per shard index either specification can dispatch
Runs == 0 .. ((IF MaxShards > MaxThreads THEN MaxShards ELSE MaxThreads) - 1)

\* ----------------------------------------------------------- pure helpers

\* int(math.ceil(a / b)) for b # 0
CeilDiv(a, b) == IF b > 0 THEN -((-a) \div b) ELSE -(a \div (-b))

start_position(idx, seg) == idx * seg

\* faulty variant of end_position: the overlap is forgotten
end_positionNoOverlap(idx, seg) == (idx + 1) * seg
\* line 188
end_position(idx, seg) == (idx + 1) * seg + Overlap

Digits == <<"0", "1", "2", "3", "4", "5", "6", "7", "8", "9">>

\* str(n) of an int, as its sequence of characters
RECURSIVE Str(_)
Str(n) ==
    IF n < 0 THEN <<"-">> \o Str(-n)
    ELSE IF n < 10 THEN <<Digits[n + 1]>>
    ELSE Str(n \div 10) \o <<Digits[(n % 10) + 1]>>

\* the path write_json opens
JsonFileName(start, end) ==
    <<json_dir, "Candidates", "_", chromosome_name, "_">> \o Str(start)
        \o <<"_">> \o Str(end) \o <<".json">>

\* AllCandidatesInRegion(chromosome_name, start_position, end_position)
AllCandidatesInRegion(chr, start, end) ==
    [chromosome_name |-> chr, start_position |-> start, end_position |-> end,
     all_candidates |-> <<>>]

\* faulty variant of add_candidate_to_list: an empty candidate list is dropped
add_candidate_to_listSkipEmpty(region, candidate_list) ==
    IF candidate_list.empty THEN region
    ELSE [region EXCEPT !.all_candidates = Append(@, candidate_list)]
\* faulty variant of add_candidate_to_list: inserts at the front
add_candidate_to_listFront(region, candidate_list) ==
    [region EXCEPT !.all_candidates = <<candidate_list>> \o @]
\* lines 63-69: self.all_candidates.append(...)
add_candidate_to_list(region, candidate_list) ==
    [region EXCEPT !.all_candidates = Append(@, candidate_list)]

reprJSON(region) ==
    [chromosome_name |-> region.chromosome_name,
     start_position |-> region.start_position,
     end_position |-> region.end_position,
     all_candidates |-> region.all_candidates]

\* The window detector's possible outputs for a region starting at start on
\* a chromosome of the given length: sorted, non-overlapping lists of at most
\* MaxWindows windows, each at a coordinate the chromosome has.
WindowAt(p) == [chr |-> chromosome_name, window_start |-> p, window_end |-> p]
RECURSIVE SortedSeq(_)
SortedSeq(S) ==
    IF S = {} THEN <<>>
    ELSE LET m == CHOOSE x \in S : \A y \in S : x <= y
         IN <<WindowAt(m)>> \o SortedSeq(S \ {m})
WindowLists(start, length) ==
    {SortedSeq(S) : S \in SUBSET {p \in start .. (start + MaxWindows - 1) : p < length}}

\* The allele enumerator's possible outputs for a window: a candidate list
\* carrying the window's coordinates, empty or not.
CandidateLists(w) ==
    {[chr |-> w.chr, window_start |-> w.window_start, window_end |-> w.window_end,
      empty |-> e] : e \in BOOLEAN}

\* ------------------------------------------------------------ region runs

NoRegion == AllCandidatesInRegion("", 0, 0)
NoRun == [pc |-> "none", start |-> 0, end |-> 0, candidate_windows |-> <<>>,
          k |-> 0, all_candidate_lists |-> NoRegion]

\* A run whose process died: its memory is gone, its range is remembered.
Dead(r) == [NoRun EXCEPT !.pc = "failed", !.start = run[r].start, !.end = run[r].end]

InWriteJson(r) == run[r].pc \in {"exists", "mkdir", "open", "dumps", "write"}

\* where parse_region goes once every window is processed (line 150)
AfterWindows == IF json_out THEN "exists" ELSE "done"

\* line 112: bam_handler.get_reads
GetReads(r) ==
    /\ run[r].pc = "get_reads"
    /\ run' = [run EXCEPT ![r].pc = "find_windows"]
    /\ UNCHANGED <<inputs, mainpc, mainerr, locals, handles, fs>>

\* lines 116-130: CandidateFinder ... get_candidate_windows, AllCandidatesInRegion
FindWindows(r) ==
    /\ run[r].pc = "find_windows"
    /\ \E ws \in WindowLists(run[r].start, chr_length) :
           run' = [run EXCEPT
                     ![r].candidate_windows = ws,
                     ![r].all_candidate_lists =
                         AllCandidatesInRegion(chromosome_name, run[r].start, run[r].end),
                     ![r].k = 0,
                     ![r].pc = IF Len(ws) = 0 THEN AfterWindows ELSE "window"]
    /\ UNCHANGED <<inputs, mainpc, mainerr, locals, handles, fs>>

\* lines 133-148: one iteration of the loop over candidate_windows
Window(r) ==
    /\ run[r].pc = "window"
    /\ LET w == run[r].candidate_windows[run[r].k + 1]
       IN \E candidate_list \in CandidateLists(w) :
              run' = [run EXCEPT
                        ![r].all_candidate_lists = add_candidate_to_list(@, candidate_list),
                        ![r].k = @ + 1,
                        ![r].pc = IF run[r].k + 1 = Len(run[r].candidate_windows)
                                  THEN AfterWindows ELSE "window"]
    /\ UNCHANGED <<inputs, mainpc, mainerr, locals, handles, fs>>

\* lines 112-148: the alignment or reference source fails, the run dies
ReadFail(r) ==
    /\ run[r].pc \in {"get_reads", "find_windows", "window"}
    /\ run' = [run EXCEPT ![r] = Dead(r)]
    /\ UNCHANGED <<inputs, mainpc, mainerr, locals, handles, fs>>

\* line 101: os.path.exists(output_dir + "json_output/")
WriteJsonExists(r) ==
    /\ run[r].pc = "exists"
    /\ run' = [run EXCEPT ![r].pc = IF json_dir \in dirs THEN "open" ELSE "mkdir"]
    /\ UNCHANGED <<inputs, mainpc, mainerr, locals, handles, fs>>

\* line 102: os.mkdir
WriteJsonMkdir(r) ==
    /\ run[r].pc = "mkdir"
    /\ json_dir \notin dirs
    /\ dirs' = dirs \cup {json_dir}
    /\ created' = created \cup {json_dir}
    /\ run' = [run EXCEPT ![r].pc = "open"]
    /\ UNCHANGED <<inputs, mainpc, mainerr, locals, handles, files>>

\* line 102: os.mkdir raises FileExistsError, a sibling made the directory
\* between this run's check and its mkdir
WriteJsonMkdirFail(r) ==
    /\ run[r].pc = "mkdir"
    /\ json_dir \in dirs
    /\ run' = [run EXCEPT ![r] = Dead(r)]
    /\ UNCHANGED <<inputs, mainpc, mainerr, locals, handles, fs>>

Opened(name, r) ==
    [state |-> "empty", doc |-> <<>>,
     writers |-> (IF name \in DOMAIN files THEN files[name].writers ELSE {}) \cup {r}]

\* lines 103-104: open(..., 'w') creates or truncates the file
WriteJsonOpen(r) ==
    /\ run[r].pc = "open"
    /\ LET name == JsonFileName(run[r].start, run[r].end)
       IN files' = [n \in DOMAIN files \cup {name} |->
                      IF n = name THEN Opened(name, r) ELSE files[n]]
    /\ run' = [run EXCEPT ![r].pc = "dumps"]
    /\ UNCHANGED <<inputs, mainpc, mainerr, locals, handles, created, dirs>>

\* lines 103-104: open raises (directory not writable)
WriteJsonOpenFail(r) ==
    /\ run[r].pc = "open"
    /\ run' = [run EXCEPT ![r] = Dead(r)]
    /\ UNCHANGED <<inputs, mainpc, mainerr, locals, handles, fs>>

\* faulty variant of WriteJsonDumps: serializing empties the result's list
WriteJsonDumpsClear(r) ==
    /\ run[r].pc = "dumps"
    /\ run' = [run EXCEPT ![r].pc = "write",
                          ![r].all_candidate_lists.all_candidates = <<>>]
    /\ UNCHANGED <<inputs, mainpc, mainerr, locals, handles, fs>>
\* line 105: json.dumps(all_candidate_lists.reprJSON(), cls=ComplexEncoder, ...)
WriteJsonDumps(r) ==
    /\ run[r].pc = "dumps"
    /\ run' = [run EXCEPT ![r].pc = "write"]
    /\ UNCHANGED <<inputs, mainpc, mainerr, locals, handles, fs>>

\* line 105 with lines 40-44: json.dumps raises (ComplexEncoder.default falls
\* back to JSONEncoder.default, which raises TypeError); the file is already open
WriteJsonDumpsFail(r) ==
    /\ run[r].pc = "dumps"
    /\ run' = [run EXCEPT ![r] = Dead(r)]
    /\ UNCHANGED <<inputs, mainpc, mainerr, locals, handles, fs>>

\* line 105: json_file.write(text); the file object is dropped on return
WriteJsonWrite(r) ==
    /\ run[r].pc = "write"
    /\ LET name == JsonFileName(run[r].start, run[r].end)
       IN files' = [files EXCEPT ![name].state = "complete",
                                 ![name].doc = <<reprJSON(run[r].all_candidate_lists)>>]
    /\ run' = [run EXCEPT ![r].pc = "done"]
    /\ UNCHANGED <<inputs, mainpc, mainerr, locals, handles, created, dirs>>

\* line 105: json_file.write raises part way (device full)
WriteJsonWriteFail(r) ==
    /\ run[r].pc = "write"
    /\ LET name == JsonFileName(run[r].start, run[r].end)
       IN files' = [files EXCEPT ![name].state = "partial"]
    /\ run' = [run EXCEPT ![r] = Dead(r)]
    /\ UNCHANGED <<inputs, mainpc, mainerr, locals, handles, created, dirs>>

\* ------------------------------------------------- the dispatching process

\* lines 244-247: the output directory is created when absent
MakeOutputDir ==
    /\ mainpc = "start"
    /\ dirs' = dirs \cup {output_dir}
    /\ created' = IF output_dir \in dirs THEN created ELSE created \cup {output_dir}
    /\ mainpc' = "view"
    /\ UNCHANGED <<inputs, mainerr, locals, handles, files, run>>

\* lines 249-252: View(...) opens a BamHandler and a FastaHandler
MainView ==
    /\ mainpc = "view"
    /\ handles' = handles + 2
    /\ mainpc' = IF test THEN "test_view" ELSE "do_parallel"
    /\ UNCHANGED <<inputs, mainerr, locals, fs, run>>

\* lines 86-87: a handler cannot open its file
MainViewFail ==
    /\ mainpc \in {"view", "test_view"}
    /\ mainpc' = "error"
    /\ mainerr' = "view"
    /\ UNCHANGED <<inputs, locals, handles, fs, run>>

\* lines 255-258: test mode builds a second View
TestView ==
    /\ mainpc = "test_view"
    /\ handles' = handles + 2
    /\ mainpc' = "test"
    /\ UNCHANGED <<inputs, mainerr, locals, fs, run>>

\* line 259 and line 159: view.test calls parse_region(100000, 200000, json_out)
TestCall ==
    /\ mainpc = "test"
    /\ run' = [run EXCEPT ![0] = [NoRun EXCEPT !.pc = "get_reads",
                                               !.start = TestStart, !.end = TestEnd]]
    /\ mainpc' = "in_test"
    /\ UNCHANGED <<inputs, mainerr, locals, handles, fs>>

\* faulty variant of parse_regionReturned: the region is not waited for
parse_regionReturnedAtOnce(r) == TRUE
\* line 159: parse_region is an ordinary call, it returns when the run is done
parse_regionReturned(r) == run[r].pc = "done"

\* line 159: the call returns when parse_region has returned
TestReturn ==
    /\ mainpc = "in_test"
    /\ parse_regionReturned(0)
    /\ mainpc' = "done"
    /\ UNCHANGED <<inputs, mainerr, locals, handles, fs, run>>

\* line 159: an exception of parse_region propagates to the script
TestRaise ==
    /\ mainpc = "in_test"
    /\ run[0].pc = "failed"
    /\ mainpc' = "error"
    /\ mainerr' = "parse_region"
    /\ UNCHANGED <<inputs, locals, handles, fs, run>>

\* line 174: FastaHandler(ref_file)
FastaOpen ==
    /\ mainpc = "do_parallel"
    /\ handles' = handles + 1
    /\ mainpc' = "length"
    /\ UNCHANGED <<inputs, mainerr, locals, fs, run>>

\* line 174: the reference cannot be opened
FastaOpenFail ==
    /\ mainpc = "do_parallel"
    /\ mainpc' = "error"
    /\ mainerr' = "fasta"
    /\ UNCHANGED <<inputs, locals, handles, fs, run>>

\* line 175: get_chr_sequence_length
GetLength ==
    /\ mainpc = "length"
    /\ whole_length' = chr_length
    /\ mainpc' = "segment"
    /\ UNCHANGED <<inputs, mainerr, each_segment_length, i, handles, fs, run>>

\* line 178: int(math.ceil(whole_length / max_threads)), then the loop starts
SegmentLength ==
    /\ mainpc = "segment"
    /\ max_threads # 0
    /\ each_segment_length' = CeilDiv(whole_length, max_threads)
    /\ i' = 0
    /\ mainpc' = "loop"
    /\ UNCHANGED <<inputs, mainerr, whole_length, handles, fs, run>>

\* line 178: ZeroDivisionError
SegmentLengthZero ==
    /\ mainpc = "segment"
    /\ max_threads = 0
    /\ mainpc' = "error"
    /\ mainerr' = "zero_division"
    /\ UNCHANGED <<inputs, locals, handles, fs, run>>

\* lines 180-186: the next iteration builds the shard's View
LoopView ==
    /\ mainpc = "loop"
    /\ i < max_threads
    /\ handles' = handles + 2
    /\ mainpc' = "start_process"
    /\ UNCHANGED <<inputs, mainerr, locals, fs, run>>

\* lines 182-186 with 86-87: the shard's View cannot open its files; the
\* exception leaves the loop and do_parallel
LoopViewFail ==
    /\ mainpc = "loop"
    /\ i < max_threads
    /\ mainpc' = "error"
    /\ mainerr' = "loop_view"
    /\ UNCHANGED <<inputs, locals, handles, fs, run>>

\* lines 187-190: the shard's range, Process(...).start(); no join follows
StartProcess ==
    /\ mainpc = "start_process"
    /\ run' = [run EXCEPT ![i] = [NoRun EXCEPT
                   !.pc = "get_reads",
                   !.start = start_position(i, each_segment_length),
                   !.end = end_position(i, each_segment_length)]]
    /\ i' = i + 1
    /\ mainpc' = "loop"
    /\ UNCHANGED <<inputs, mainerr, whole_length, each_segment_length, handles, fs>>

\* line 180: range(max_threads) is exhausted, do_parallel returns
LoopExit ==
    /\ mainpc = "loop"
    /\ i >= max_threads
    /\ mainpc' = "done"
    /\ UNCHANGED <<inputs, mainerr, locals, handles, fs, run>>

MainNext ==
    \/ MakeOutputDir
    \/ MainView
    \/ MainViewFail
    \/ TestView
    \/ TestCall
    \/ TestReturn
    \/ TestRaise
    \/ FastaOpen
    \/ FastaOpenFail
    \/ GetLength
    \/ SegmentLength
    \/ SegmentLengthZero
    \/ LoopView
    \/ LoopViewFail
    \/ StartProcess
    \/ LoopExit

RunNext(r) ==
    \/ GetReads(r)
    \/ FindWindows(r)
    \/ Window(r)
    \/ ReadFail(r)
    \/ WriteJsonExists(r)
    \/ WriteJsonMkdir(r)
    \/ WriteJsonMkdirFail(r)
    \/ WriteJsonOpen(r)
    \/ WriteJsonOpenFail(r)
    \/ WriteJsonDumps(r)
    \/ WriteJsonDumpsFail(r)
    \/ WriteJsonWrite(r)
    \/ WriteJsonWriteFail(r)

\* --------------------------------------------------------- specifications

InitLocals ==
    /\ mainpc = "start"
    /\ mainerr = ""
    /\ whole_length = 0
    /\ each_segment_length = 0
    /\ i = 0
    /\ handles = 0
    /\ created = {}
    /\ files = <<>>
    /\ run = [r \in Runs |-> NoRun]

Init ==
    /\ max_threads \in (-1) .. MaxThreads
    /\ test \in BOOLEAN
    /\ json_out \in BOOLEAN
    /\ chr_length \in 0 .. MaxLen
    /\ dirs \in {{}, {output_dir}, {output_dir, json_dir}}
    /\ InitLocals

Next == MainNext \/ \E r \in Runs : RunNext(r)

Spec == Init /\ [][Next]_vars

\* do_parallel alone, for the arithmetic of the shard ranges: the state at
\* its call (the script has made the output directory and its own View),
\* chromosome lengths up to several overlaps, and no failing resource.
ShardLengths == {a * LenStride + b : a \in 0 .. MaxLenSteps, b \in 0 .. MaxLenRest}

InitShard ==
    /\ max_threads \in 1 .. MaxShards
    /\ test = FALSE
    /\ json_out = FALSE
    /\ chr_length \in ShardLengths
    /\ dirs = {output_dir}
    /\ mainpc = "do_parallel"
    /\ mainerr = ""
    /\ whole_length = 0
    /\ each_segment_length = 0
    /\ i = 0
    /\ handles = 2
    /\ created = {}
    /\ files = <<>>
    /\ run = [r \in Runs |-> NoRun]

NextShard ==
    \/ FastaOpen
    \/ GetLength
    \/ SegmentLength
    \/ LoopView
    \/ StartProcess
    \/ LoopExit

SpecShard == InitShard /\ [][NextShard]_vars

\* Test mode alone (--test True): the script runs one region synchronously,
\* on a chromosome that reaches into the test region by 0..MaxWindows bases.
\* No sibling exists, so the directory race of WriteJsonMkdirFail cannot occur.
InitTest ==
    /\ max_threads \in 1 .. MaxThreads
    /\ test = TRUE
    /\ json_out \in BOOLEAN
    /\ chr_length \in TestStart .. (TestStart + MaxWindows)
    /\ dirs \in {{}, {output_dir}, {output_dir, json_dir}}
    /\ InitLocals

NextTest ==
    \/ MakeOutputDir
    \/ MainView
    \/ MainViewFail
    \/ TestView
    \/ TestCall
    \/ TestReturn
    \/ TestRaise
    \/ GetReads(0)
    \/ FindWindows(0)
    \/ Window(0)
    \/ ReadFail(0)
    \/ WriteJsonExists(0)
    \/ WriteJsonMkdir(0)
    \/ WriteJsonOpen(0)
    \/ WriteJsonOpenFail(0)
    \/ WriteJsonDumps(0)
    \/ WriteJsonDumpsFail(0)
    \/ WriteJsonWrite(0)
    \/ WriteJsonWriteFail(0)

SpecTest == InitTest /\ [][NextTest]_vars

\* ------------------------------------------------------------------ claims

Sharded == ~test
Shards == 0 .. (max_threads - 1)
Started(r) == run[r].pc # "none"
PastWindows(r) == run[r].pc \in {"exists", "mkdir", "open", "dumps", "write", "done"}
Wrote(r) == \E name \in DOMAIN files : r \in files[name].writers

\* C1: for every length L >= 0 and shard count N >= 1, a do_parallel that
\* returns has dispatched exactly N runs, the i-th with start = i*ceil(L/N)
\* and end = (i+1)*ceil(L/N) + 1000, no other run, and no range twice.
C1_ExactlyTheShardRanges ==
    (Sharded /\ mainpc = "done" /\ max_threads >= 1) =>
        /\ \A idx \in Shards :
               /\ Started(idx)
               /\ run[idx].start = idx * CeilDiv(chr_length, max_threads)
               /\ run[idx].end = (idx + 1) * CeilDiv(chr_length, max_threads) + 1000
        /\ \A r \in Runs \ Shards : ~Started(r)
        /\ \A a, b \in Shards :
               a # b => <<run[a].start, run[a].end>> # <<run[b].start, run[b].end>>

\* C2: when do_parallel has returned, every coordinate of [0, L] lies in
\* some shard's range, and each shard's end is exactly 1000 past the next
\* shard's start.
C2_CoverageAndOverlap ==
    (mainpc = "done" /\ max_threads >= 1) =>
        /\ \A c \in 0 .. whole_length :
               \E idx \in Shards : run[idx].start <= c /\ c < run[idx].end
        /\ \A idx \in Shards :
               (idx + 1) \in Shards => run[idx].end - run[idx + 1].start = 1000

\* C2 witness: several shards, and a chromosome longer than the first range.
C2_Witness ==
    /\ mainpc = "done"
    /\ max_threads >= 2
    /\ whole_length >= run[0].end
    /\ whole_length > 2 * Overlap

\* C3: no artifact file name is opened for writing by two different shard
\* workers of one do_parallel run.
C3_DistinctArtifactNames ==
    Sharded => \A name \in DOMAIN files : Cardinality(files[name].writers) <= 1

\* C4: with a shard count <= 0 the program ends in an error before any work:
\* it creates no directory, opens no handle, dispatches no shard, and never
\* finishes as a success.
C4_InvalidShardCountIsFatalFirst ==
    (Sharded /\ max_threads <= 0) =>
        /\ mainpc # "done"
        /\ created = {}
        /\ handles = 0
        /\ \A r \in Runs : ~Started(r)

\* C5: when the View of one shard cannot be built, every other shard of
\* [0, N) is still dispatched.
C5_SiblingsStillDispatched ==
    (Sharded /\ mainpc = "error" /\ mainerr = "loop_view") =>
        \A idx \in Shards : idx # i => Started(idx)

\* C6: a run has opened its artifact only after every window was processed,
\* and a run that failed has left no artifact file, empty or partial.
C6_NoArtifactFromFailedRun ==
    \A r \in Runs :
        /\ Wrote(r) => run[r].pc \in {"dumps", "write", "done", "failed"}
        /\ run[r].pc = "failed" => ~Wrote(r)

\* C7: in sharded mode no step of the dispatching process waits for a
\* worker (its next step is enabled whatever the workers are doing) and all
\* N workers are started when do_parallel returns; in test mode the script
\* is blocked while the one region [100000, 200000] is being parsed and
\* finishes only once that parse_region has returned.
C7_FireAndForgetOrSynchronous ==
    /\ (Sharded /\ mainpc \in {"do_parallel", "length", "segment", "loop", "start_process"})
           => ENABLED MainNext
    /\ (Sharded /\ mainpc = "done") => \A idx \in Shards : Started(idx)
    /\ (test /\ mainpc = "in_test" /\ run[0].pc \notin {"done", "failed"})
           => ~ENABLED MainNext
    /\ (test /\ mainpc = "done") =>
           /\ run[0].pc = "done"
           /\ run[0].start = 100000 /\ run[0].end = 200000
           /\ \A r \in Runs \ {0} : ~Started(r)

\* C7 witness: do_parallel has returned and none of its workers has finished.
C7_Witness ==
    /\ Sharded
    /\ mainpc = "done"
    /\ max_threads = MaxThreads
    /\ \A idx \in Shards : run[idx].pc = "get_reads"

\* C8: while the windows are processed the result holds one entry per window
\* processed so far, and once they are all processed it holds exactly one
\* entry per window, empty candidate lists included (none for no window).
C8_OneEntryPerWindow ==
    \A r \in Runs :
        /\ run[r].pc = "window" =>
               Len(run[r].all_candidate_lists.all_candidates) = run[r].k
        /\ PastWindows(r) =>
               Len(run[r].all_candidate_lists.all_candidates) = Len(run[r].candidate_windows)

\* C8 witness: a finished run over several windows, one with an empty and
\* one with a non-empty candidate list.
C8_Witness ==
    \E r \in Runs :
        /\ run[r].pc = "done"
        /\ Len(run[r].candidate_windows) = MaxWindows
        /\ Len(run[r].all_candidate_lists.all_candidates) = MaxWindows
        /\ run[r].all_candidate_lists.all_candidates[1].empty
        /\ ~run[r].all_candidate_lists.all_candidates[MaxWindows].empty

EntryOfWindow(r, j) ==
    LET e == run[r].all_candidate_lists.all_candidates[j]
        w == run[r].candidate_windows[j]
    IN e.chr = w.chr /\ e.window_start = w.window_start /\ e.window_end = w.window_end

C9_Order ==
    \A r \in Runs :
        \A j \in 1 .. Len(run[r].all_candidate_lists.all_candidates) :
            j <= Len(run[r].candidate_windows) /\ EntryOfWindow(r, j)

C9_NoReorder ==
    \A r \in Runs :
        (Started(r) /\ run'[r].pc # "failed") =>
            \A j \in 1 .. Len(run[r].all_candidate_lists.all_candidates) :
                /\ j <= Len(run'[r].all_candidate_lists.all_candidates)
                /\ run'[r].all_candidate_lists.all_candidates[j]
                       = run[r].all_candidate_lists.all_candidates[j]

\* C9: the k-th entry of the result is always the candidate list of the k-th
\* window the detector returned, and no step of a living run moves or
\* changes an entry already appended.
C9_DetectorOrderKept == []C9_Order /\ [][C9_NoReorder]_vars

\* C9 witness: a finished run over several distinct windows.
C9_Witness ==
    \E r \in Runs :
        /\ run[r].pc = "done"
        /\ Len(run[r].all_candidate_lists.all_candidates) = MaxWindows
        /\ run[r].candidate_windows[1] # run[r].candidate_windows[MaxWindows]

C10_NoArtifactUnlessAsked ==
    ~json_out => (DOMAIN files = {} /\ json_dir \notin created)

C10_ResultUntouched ==
    \A r \in Runs :
        (InWriteJson(r) /\ run'[r].pc # "failed") =>
            run'[r].all_candidate_lists = run[r].all_candidate_lists

\* C10: no step of write_json changes the run's in-memory result (chromosome,
\* start, end, ordered candidate lists), and with JSON output disabled no
\* artifact file or artifact directory is ever created.
C10_SerializationIsSideEffect == []C10_NoArtifactUnlessAsked /\ [][C10_ResultUntouched]_vars

\* C10 witness: a run has written its complete artifact and still holds the
\* non-empty result the artifact was made from.
C10_Witness ==
    \E r \in Runs :
        /\ run[r].pc = "done"
        /\ Len(run[r].all_candidate_lists.all_candidates) >= 1
        /\ LET name == JsonFileName(run[r].start, run[r].end)
           IN /\ name \in DOMAIN files
              /\ files[name].state = "complete"
              /\ files[name].doc = <<reprJSON(run[r].all_candidate_lists)>>

====
